---------------------------- MODULE Spec2Model ----------------------------
(***************************************************************************)
(* A model of a.py: a flat script that generates test data, POSTs it to    *)
(* one endpoint through send_request and asserts on the responses.         *)
(*                                                                         *)
(* Python integers are unbounded, TLC's are 32 bit.  The integers of       *)
(* generate_very_unique_phone_number (a 128-bit UUID, a microsecond        *)
(* timestamp, 9000000000) are therefore kept as little-endian sequences of *)
(* limbs of radix 10^9, normalised (no leading zero limb; zero is <<>>).   *)
(* Strings the script searches are sequences of words.                     *)
(***************************************************************************)
EXTENDS Integers, Sequences, FiniteSets, TLC

VARIABLES
    unique_part,            \* generator run: int(uuid.uuid4().hex, 16)
    timestamp_part,         \* generator run: int(time.time() * 1000000)
    phone_result,           \* generator run: the value returned, <<>> before the call
    gen_pc,                 \* generator run: "call" or "returned"
    pc,                     \* script: the statement the interpreter is at
    generated,              \* script: what the generator calls of the run return, call by call
    response_1_1,           \* script variables of the same names
    response_2_1,
    duplicate_phone_number,
    setup_response,
    response_3_1,
    calls,                  \* every send_request call so far: request, POST outcome, result
    out,                    \* the result lines printed so far
    status                  \* "running", "completed", or the exception that ended the script

vars == <<unique_part, timestamp_part, phone_result, gen_pc, pc, generated,
          response_1_1, response_2_1, duplicate_phone_number, setup_response,
          response_3_1, calls, out, status>>

genVars == <<unique_part, timestamp_part, phone_result, gen_pc>>

scriptVars == <<pc, generated, response_1_1, response_2_1, duplicate_phone_number,
                setup_response, response_3_1, calls, out, status>>

---------------------------------------------------------------------------
(* Bounds of the model *)

\* how many multiples of 111111111 the sampled limbs hold
MaxSample == 4

---------------------------------------------------------------------------
(* Unbounded non-negative integers *)

\* the modulus of line 53; also the radix of the limbs
Base == 1000000000

Min(a, b) == IF a <= b THEN a ELSE b

Rest(a) == IF a = <<>> THEN <<>> ELSE Tail(a)

Low(a) == IF a = <<>> THEN 0 ELSE Head(a)

\* drop the leading (most significant, last) zero limbs
RECURSIVE Normalise(_)
Normalise(a) ==
    IF a = <<>> THEN <<>>
    ELSE IF a[Len(a)] = 0 THEN Normalise(SubSeq(a, 1, Len(a) - 1))
    ELSE a

\* a + b + c, c a carry of 0 or 1
RECURSIVE AddCarry(_, _, _)
AddCarry(a, b, c) ==
    IF a = <<>> /\ b = <<>>
    THEN IF c = 0 THEN <<>> ELSE <<c>>
    ELSE LET s == Low(a) + Low(b) + c
         IN  <<s % Base>> \o AddCarry(Rest(a), Rest(b), s \div Base)

Add(a, b) == AddCarry(a, b, 0)

\* a % 1_000_000_000: the lowest limb
ModBase(a) == Normalise(<<Low(a)>>)

\* a % 10_000_000_000, one digit too many: the lowest limb and one digit of the next
ModTenBase(a) == Normalise(<<Low(a), Low(Rest(a)) % 10>>)

\* Pow10[k + 1] = 10^k
Pow10 == <<1, 10, 100, 1000, 10000, 100000, 1000000, 10000000, 100000000, Base>>

\* n < 10^k as exactly k digits, most significant first, zero padded
PaddedDigits(n, k) == [i \in 1..k |-> (n \div Pow10[k - i + 1]) % 10]

\* the decimal digits of n < Base, most significant first, no padding
NatDigits(n) == PaddedDigits(n, CHOOSE d \in 1..9 : n < Pow10[d + 1] /\ (d = 1 \/ n >= Pow10[d]))

\* the limbs a[1..k] as digits, most significant first, nine digits each
RECURSIVE LowLimbDigits(_, _)
LowLimbDigits(a, k) ==
    IF k = 0 THEN <<>> ELSE PaddedDigits(a[k], 9) \o LowLimbDigits(a, k - 1)

\* str(a): the decimal digits of a, most significant first
str(a) ==
    IF a = <<>> THEN <<0>>
    ELSE NatDigits(a[Len(a)]) \o LowLimbDigits(a, Len(a) - 1)

\* the value of the digits ds[i..Len(ds)]
RECURSIVE DigitsValueFrom(_, _)
DigitsValueFrom(ds, i) ==
    IF i > Len(ds) THEN 0
    ELSE ds[i] * Pow10[Len(ds) - i + 1] + DigitsValueFrom(ds, i + 1)

\* the value of at most nine digits
DigitsValue(ds) == DigitsValueFrom(ds, 1)

RECURSIVE LimbsOfDigits(_)
LimbsOfDigits(ds) ==
    IF Len(ds) <= 9 THEN <<DigitsValue(ds)>>
    ELSE <<DigitsValue(SubSeq(ds, Len(ds) - 8, Len(ds)))>>
         \o LimbsOfDigits(SubSeq(ds, 1, Len(ds) - 9))

\* int(s) of a string of digits
int(ds) == Normalise(LimbsOfDigits(ds))

---------------------------------------------------------------------------
(* generate_very_unique_phone_number, lines 42-56 *)

\* 9000000000
base_num == <<0, 9>>

\* a buggy modulus of 10^10
suffix_part_ten_digits(u, t) == ModTenBase(Add(u, t))

\* line 53
suffix_part(u, t) == ModBase(Add(u, t))

\* line 55
phone_number(u, t) == Add(base_num, suffix_part(u, t))

\* line 56: int(str(phone_number)[:10])
generate_very_unique_phone_number(u, t) ==
    LET s == str(phone_number(u, t))
    IN  int(SubSeq(s, 1, Min(10, Len(s))))

---------------------------------------------------------------------------
(* Sampled inputs of the generator *)

LimbSamples == {0, 1, 999999999, 999999998} \cup {k * 111111111 : k \in 1..MaxSample}

\* 2^128 - 1 = 340282366920938463463374607431768211455
MaxUuid == <<768211455, 374607431, 938463463, 282366920, 340>>

\* values of int(uuid.uuid4().hex, 16): one limb, two limbs, five limbs
UuidSamples ==
    {Normalise(<<lo>>) : lo \in LimbSamples}
    \cup {<<lo, hi>> : lo \in LimbSamples, hi \in {1, 999999999}}
    \cup {MaxUuid, <<999999999, 999999999, 999999999, 999999999, 339>>}

\* values of int(time.time() * 1000000): microseconds since the epoch
TimestampSamples ==
    {Normalise(<<lo, hi>>) : lo \in LimbSamples, hi \in {0, 1762041}}

GenInit ==
    /\ unique_part \in UuidSamples
    /\ timestamp_part \in TimestampSamples
    /\ phone_result = <<>>
    /\ gen_pc = "call"

GenIdle ==
    /\ unique_part = <<>>
    /\ timestamp_part = <<>>
    /\ phone_result = <<>>
    /\ gen_pc = "idle"

\* one call of generate_very_unique_phone_number()
Generate ==
    /\ gen_pc = "call"
    /\ phone_result' = generate_very_unique_phone_number(unique_part, timestamp_part)
    /\ gen_pc' = "returned"
    /\ UNCHANGED <<unique_part, timestamp_part>>
    /\ UNCHANGED scriptVars

---------------------------------------------------------------------------
(* Strings, responses and exceptions *)

\* line 7
ROLL_NUMBER == "2"

LowerWord(w) ==
    CASE w = "User" -> "user"
      [] w = "Phone" -> "phone"
      [] w = "Invalid" -> "invalid"
      [] w = "Bad" -> "bad"
      [] w = "Gateway" -> "gateway"
      [] OTHER -> w

\* s.lower()
lower(s) == [i \in 1..Len(s) |-> LowerWord(s[i])]

\* needle in hay
contains(needle, hay) ==
    \E i \in 1..(Len(hay) - Len(needle) + 1) :
        SubSeq(hay, i, i + Len(needle) - 1) = needle

user_already_exists == <<"user", "already", "exists">>

phone_number_words == <<"phone", "number">>

\* the messages a server is sampled to send
Messages ==
    { <<"User", "already", "exists">>,
      <<"Phone", "number", "already", "registered">>,
      <<"Invalid", "input">> }

JsonString(words) == [type |-> "string", words |-> words]

JsonNull == [type |-> "null"]

\* a JSON object of one member
JsonObject(key, value) == [type |-> "object", members |-> {<<key, value>>}]

JsonArray == [type |-> "array"]

\* the JSON documents a server is sampled to send: an array, objects whose
\* message is a string or null, an object without a message
JsonValues ==
    {JsonArray}
    \cup { JsonObject("message", JsonString(m)) : m \in Messages }
    \cup { JsonObject("message", JsonNull),
           JsonObject("error", JsonString(<<"User", "already", "exists">>)) }

\* response bodies: none, text that is no JSON, JSON
Bodies ==
    { [kind |-> "empty"],
      [kind |-> "text", text |-> <<"Bad", "Gateway">>],
      [kind |-> "text", text |-> <<"User", "already", "exists">>] }
    \cup { [kind |-> "json", value |-> v] : v \in JsonValues }

\* a JSON document as the text the server sent
JsonText(v) ==
    IF v.type = "array" THEN <<"[", "]">>
    ELSE IF v.type = "null" THEN <<"null">>
    ELSE IF v.type = "string" THEN v.words
    ELSE LET m == CHOOSE p \in v.members : TRUE
         IN  <<m[1]>> \o (IF m[2].type = "string" THEN m[2].words ELSE <<"null">>)

StatusCodes == {200, 201, 400, 401, 500}

Responses == [kind : {"response"}, status_code : StatusCodes, body : Bodies]

None == [kind |-> "None"]

\* a script variable not assigned yet
Unset == [kind |-> "unset"]

\* what requests.post() does: a response, or an exception of the transport
PostOutcomes ==
    { [kind |-> "raise", exc |-> e] : e \in {"ConnectionError", "Timeout"} }
    \cup { [kind |-> "response", response |-> r] : r \in Responses }

\* the classes an exception is an instance of
ExcBases(exc) ==
    CASE exc = "ConnectionError" -> {"ConnectionError", "RequestException"}
      [] exc = "Timeout" -> {"Timeout", "RequestException"}
      [] exc = "requests.JSONDecodeError" ->
            {"requests.JSONDecodeError", "InvalidJSONError", "RequestException",
             "json.JSONDecodeError", "ValueError"}
      [] OTHER -> {exc}

\* response.content as a condition
content(r) == r.body.kind # "empty"

\* response.text
text(r) ==
    CASE r.body.kind = "empty" -> <<>>
      [] r.body.kind = "text" -> r.body.text
      [] OTHER -> JsonText(r.body.value)

\* response.json()
json(r) ==
    IF r.body.kind = "json"
    THEN [kind |-> "return", value |-> r.body.value]
    ELSE [kind |-> "raise", exc |-> "requests.JSONDecodeError"]

\* a response as a condition is true of every response
response_bool_any(r) == TRUE

\* a response as a condition: requests.Response.__bool__ is its ok, status below 400
response_bool(r) == r.status_code < 400

---------------------------------------------------------------------------
(* send_request, lines 9-38 *)

\* a handler for another exception
json_handler_other(exc) == "KeyError" \in ExcBases(exc)

\* line 29: except json.JSONDecodeError
json_handler(exc) == "json.JSONDecodeError" \in ExcBases(exc)

\* a handler for timeouts alone
request_handler_timeout(exc) == "Timeout" \in ExcBases(exc)

\* line 34: except requests.exceptions.RequestException
request_handler(exc) == "RequestException" \in ExcBases(exc)

\* lines 25-30: the exception that leaves the inner try, "" when none does
log_body(r) ==
    IF ~content(r) THEN ""
    ELSE LET j == json(r)
         IN  IF j.kind = "return" THEN ""
             ELSE IF json_handler(j.exc) THEN ""
             ELSE j.exc

\* the call, given what requests.post() does: the value returned or the exception raised
send_request(post) ==
    IF post.kind = "raise"
    THEN IF request_handler(post.exc)
         THEN [kind |-> "return", value |-> None]
         ELSE [kind |-> "raise", exc |-> post.exc]
    ELSE LET e == log_body(post.response)
         IN  IF e = "" THEN [kind |-> "return", value |-> post.response]
             ELSE IF request_handler(e) THEN [kind |-> "return", value |-> None]
             ELSE [kind |-> "raise", exc |-> e]

---------------------------------------------------------------------------
(* The script, lines 66-203 *)

\* lines 68-71, 135-138 and 174-177
headers_with_roll_number ==
    ("roll-number" :> ROLL_NUMBER) @@ ("Content-Type" :> "application/json")

\* lines 111-113
headers_2_1 == ("Content-Type" :> "application/json")

\* the random source and the clock of a run, call by call: three different
\* draws, or the same draw three times
EntropyStreams ==
    { << [uuid |-> <<111111111>>, time |-> <<0, 1762041>>],
         [uuid |-> <<999999999, 1>>, time |-> <<1, 1762041>>],
         [uuid |-> MaxUuid, time |-> <<999999999, 1762041>>] >>,
      << [uuid |-> <<222222222>>, time |-> <<5, 1762041>>],
         [uuid |-> <<222222222>>, time |-> <<5, 1762041>>],
         [uuid |-> <<222222222>>, time |-> <<5, 1762041>>] >> }

\* the generator is a function of its draws: the phone numbers of the three
\* calls of a run (lines 75, 117 and 139), for each stream of draws
GeneratedStreams ==
    { [k \in 1..3 |-> generate_very_unique_phone_number(e[k].uuid, e[k].time)] :
        e \in EntropyStreams }

\* the k-th call of generate_very_unique_phone_number() of a run
phone_of_call(k) == generated[k]

\* a wider list of accepted codes
expected_status_codes_wide == {200, 201, 500}

\* lines 87 and 152
expected_status_codes == {200, 201}

\* the check without its status condition
is_user_exists_any_status(r) ==
    content(r) /\ contains(user_already_exists, lower(text(r)))

\* lines 88-92 and 153-157
is_400_user_exists(r) ==
    r.status_code = 400 /\ content(r) /\ contains(user_already_exists, lower(text(r)))

\* an assertion that lets every 400 through
assert_1_1_any_400(r) == r.status_code \in expected_status_codes \cup {400}

\* line 94
assert_1_1(r) == r.status_code \in expected_status_codes \/ is_400_user_exists(r)

\* an assertion that lets every 400 through
assert_setup_any_400(r) == r.status_code \in expected_status_codes \cup {400}

\* line 159
assert_setup(r) == r.status_code \in expected_status_codes \/ is_400_user_exists(r)

\* an assertion that accepts every client error
assert_2_1_any_4xx(r) == r.status_code >= 400 /\ r.status_code < 500

\* line 124
assert_2_1(r) == r.status_code = 401

\* line 188
assert_3_1(r) == r.status_code = 400

\* line 194, response_json.get("message", ""): a value that is no dict has no get
get_message(value) ==
    IF value.type # "object"
    THEN [kind |-> "raise", exc |-> "AttributeError"]
    ELSE IF \E p \in value.members : p[1] = "message"
    THEN [kind |-> "return", value |-> (CHOOSE p \in value.members : p[1] = "message")[2]]
    ELSE [kind |-> "return", value |-> JsonString(<<>>)]

\* line 194, .lower(): a value that is no string has no lower
lower_message(value) ==
    IF value.type = "string"
    THEN [kind |-> "return", value |-> lower(value.words)]
    ELSE [kind |-> "raise", exc |-> "AttributeError"]

\* lines 191-198: "skipped", "checked", "warning", or the exception that leaves them
message_check(r) ==
    IF ~(response_bool(r) /\ content(r)) THEN "skipped"
    ELSE LET j == json(r)
         IN  IF j.kind = "raise"
             THEN IF json_handler(j.exc) THEN "warning" ELSE j.exc
             ELSE LET m == get_message(j.value)
                  IN  IF m.kind = "raise" THEN m.exc
                      ELSE LET error_message == lower_message(m.value)
                           IN  IF error_message.kind = "raise" THEN error_message.exc
                               ELSE IF \/ contains(phone_number_words, error_message.value)
                                       \/ contains(user_already_exists, error_message.value)
                               THEN "checked"
                               ELSE "AssertionError"

call(tc, headers, phoneNumber, post) ==
    [tc |-> tc, headers |-> headers, phoneNumber |-> phoneNumber,
     post |-> post, result |-> send_request(post)]

\* the script ends with exception exc
Abort(exc) ==
    /\ pc' = "aborted"
    /\ status' = exc

ScriptInit ==
    /\ pc = "send_1_1"
    /\ generated \in GeneratedStreams
    /\ response_1_1 = Unset
    /\ response_2_1 = Unset
    /\ duplicate_phone_number = <<>>
    /\ setup_response = Unset
    /\ response_3_1 = Unset
    /\ calls = <<>>
    /\ out = <<>>
    /\ status = "running"

ScriptIdle ==
    /\ pc = "idle"
    /\ generated = <<>>
    /\ response_1_1 = Unset
    /\ response_2_1 = Unset
    /\ duplicate_phone_number = <<>>
    /\ setup_response = Unset
    /\ response_3_1 = Unset
    /\ calls = <<>>
    /\ out = <<>>
    /\ status = "idle"

\* lines 67-78
Send_1_1 ==
    /\ pc = "send_1_1"
    /\ \E post \in PostOutcomes :
        LET c == call("1.1", headers_with_roll_number, phone_of_call(1), post)
        IN  /\ calls' = Append(calls, c)
            /\ IF c.result.kind = "return"
               THEN /\ response_1_1' = c.result.value
                    /\ pc' = "check_1_1"
                    /\ status' = status
               ELSE /\ response_1_1' = response_1_1
                    /\ Abort(c.result.exc)
    /\ UNCHANGED <<generated, response_2_1, duplicate_phone_number, setup_response,
                   response_3_1, out>>
    /\ UNCHANGED genVars

\* lines 80-106
Check_1_1 ==
    /\ pc = "check_1_1"
    /\ IF response_1_1 = None THEN Abort("AssertionError") /\ out' = out
       ELSE IF ~assert_1_1(response_1_1) THEN Abort("AssertionError") /\ out' = out
       ELSE /\ pc' = "send_2_1"
            /\ status' = status
            /\ out' = Append(out,
                 IF response_1_1.status_code \in expected_status_codes
                 THEN "TC 1.1: PASSED (User created successfully - Status 200/201)"
                 ELSE IF is_400_user_exists(response_1_1)
                 THEN "TC 1.1: PASSED (User creation failed as expected: User already exists - Status 400)"
                 ELSE "TC 1.1: FAILED (Unexpected API response despite assertion pass criteria)")
    /\ UNCHANGED <<generated, response_1_1, response_2_1, duplicate_phone_number,
                   setup_response, response_3_1, calls>>
    /\ UNCHANGED genVars

\* lines 110-120
Send_2_1 ==
    /\ pc = "send_2_1"
    /\ \E post \in PostOutcomes :
        LET c == call("2.1", headers_2_1, phone_of_call(2), post)
        IN  /\ calls' = Append(calls, c)
            /\ IF c.result.kind = "return"
               THEN /\ response_2_1' = c.result.value
                    /\ pc' = "check_2_1"
                    /\ status' = status
               ELSE /\ response_2_1' = response_2_1
                    /\ Abort(c.result.exc)
    /\ UNCHANGED <<generated, response_1_1, duplicate_phone_number, setup_response,
                   response_3_1, out>>
    /\ UNCHANGED genVars

\* lines 122-127
Check_2_1 ==
    /\ pc = "check_2_1"
    /\ IF response_2_1 = None THEN Abort("AssertionError") /\ out' = out
       ELSE IF ~assert_2_1(response_2_1) THEN Abort("AssertionError") /\ out' = out
       ELSE /\ pc' = "send_setup"
            /\ status' = status
            /\ out' = Append(out, "TC 2.1: PASSED")
    /\ UNCHANGED <<generated, response_1_1, response_2_1, duplicate_phone_number,
                   setup_response, response_3_1, calls>>
    /\ UNCHANGED genVars

\* lines 131-146
Send_Setup ==
    /\ pc = "send_setup"
    /\ duplicate_phone_number' = phone_of_call(3)
    /\ \E post \in PostOutcomes :
        LET c == call("3.1 setup", headers_with_roll_number, duplicate_phone_number', post)
        IN  /\ calls' = Append(calls, c)
            /\ IF c.result.kind = "return"
               THEN /\ setup_response' = c.result.value
                    /\ pc' = "check_setup"
                    /\ status' = status
               ELSE /\ setup_response' = setup_response
                    /\ Abort(c.result.exc)
    /\ UNCHANGED <<generated, response_1_1, response_2_1, response_3_1, out>>
    /\ UNCHANGED genVars

\* lines 148-170
Check_Setup ==
    /\ pc = "check_setup"
    /\ IF setup_response = None THEN Abort("AssertionError") /\ out' = out
       ELSE IF ~assert_setup(setup_response) THEN Abort("AssertionError") /\ out' = out
       ELSE IF setup_response.status_code \in expected_status_codes
       THEN /\ pc' = "send_3_1"
            /\ status' = status
            /\ out' = Append(out, "--- TC 3.1 Setup Complete (User created for duplication) ---")
       ELSE IF is_400_user_exists(setup_response)
       THEN /\ pc' = "send_3_1"
            /\ status' = status
            /\ out' = Append(out, "--- TC 3.1 Setup Complete (User already exists for duplication) ---")
       ELSE /\ Abort("SystemExit")
            /\ out' = Append(out, "--- TC 3.1 Setup FAILED (Unexpected API response) ---")
    /\ UNCHANGED <<generated, response_1_1, response_2_1, duplicate_phone_number,
                   setup_response, response_3_1, calls>>
    /\ UNCHANGED genVars

\* lines 174-184
Send_3_1 ==
    /\ pc = "send_3_1"
    /\ \E post \in PostOutcomes :
        LET c == call("3.1", headers_with_roll_number, duplicate_phone_number, post)
        IN  /\ calls' = Append(calls, c)
            /\ IF c.result.kind = "return"
               THEN /\ response_3_1' = c.result.value
                    /\ pc' = "check_3_1"
                    /\ status' = status
               ELSE /\ response_3_1' = response_3_1
                    /\ Abort(c.result.exc)
    /\ UNCHANGED <<generated, response_1_1, response_2_1, duplicate_phone_number,
                   setup_response, out>>
    /\ UNCHANGED genVars

\* lines 186-203
Check_3_1 ==
    /\ pc = "check_3_1"
    /\ IF response_3_1 = None THEN Abort("AssertionError") /\ out' = out
       ELSE IF ~assert_3_1(response_3_1) THEN Abort("AssertionError") /\ out' = out
       ELSE LET m == message_check(response_3_1)
            IN  IF m \in {"skipped", "checked", "warning"}
                THEN /\ pc' = "end"
                     /\ status' = "completed"
                     /\ out' = out
                          \o (IF m = "warning"
                              THEN <<"Warning: TC 3.1: Response body for error is not valid JSON. Cannot assert message content.">>
                              ELSE <<>>)
                          \o <<"TC 3.1: PASSED", "--- All tests completed (basic example) ---">>
                ELSE Abort(m) /\ out' = out
    /\ UNCHANGED <<generated, response_1_1, response_2_1, duplicate_phone_number,
                   setup_response, response_3_1, calls>>
    /\ UNCHANGED genVars

---------------------------------------------------------------------------
(* Specifications *)

Init == ScriptInit /\ GenIdle

Next ==
    \/ Send_1_1
    \/ Check_1_1
    \/ Send_2_1
    \/ Check_2_1
    \/ Send_Setup
    \/ Check_Setup
    \/ Send_3_1
    \/ Check_3_1

\* the script, run by run
Spec == Init /\ [][Next]_vars

\* the interpreter executes the next statement as long as there is one
FairSpec == Spec /\ WF_vars(Next)

\* the generator alone, over the sampled inputs
InitGen == GenInit /\ ScriptIdle

NextGen == Generate

SpecGen == InitGen /\ [][NextGen]_vars

---------------------------------------------------------------------------
(* Properties *)

Printed(line) == \E i \in 1..Len(out) : out[i] = line

Pass_1_1_Created == "TC 1.1: PASSED (User created successfully - Status 200/201)"

Pass_1_1_Exists ==
    "TC 1.1: PASSED (User creation failed as expected: User already exists - Status 400)"

Pass_1_1_Printed == Printed(Pass_1_1_Created) \/ Printed(Pass_1_1_Exists)

Pass_2_1 == "TC 2.1: PASSED"

Pass_3_1 == "TC 3.1: PASSED"

AllCompleted == "--- All tests completed (basic example) ---"

\* the value send_request returned in the i-th call is a response
Received(i) ==
    /\ i <= Len(calls)
    /\ calls[i].result.kind = "return"
    /\ calls[i].result.value # None

\* the i-th call returned a response that is a creation (200, 201) or a 400
\* whose text says that the user already exists
CreatedOrExists(i) ==
    /\ Received(i)
    /\ LET r == calls[i].result.value
       IN  \/ r.status_code \in {200, 201}
           \/ /\ r.status_code = 400
              /\ contains(<<"user", "already", "exists">>, lower(text(r)))

\* C1: generate_very_unique_phone_number() returns an integer of exactly ten
\* decimal digits with leading digit 9, a value in 9000000000..9999999999,
\* whatever the UUID integer and the timestamp are.
C1_PhoneNumberTenDigits ==
    gen_pc = "returned" =>
        /\ Len(phone_result) = 2
        /\ phone_result[2] = 9
        /\ phone_result[1] >= 0 /\ phone_result[1] <= 999999999
        /\ Len(str(phone_result)) = 10
        /\ str(phone_result)[1] = 9

\* a 128-bit UUID whose sum with the timestamp carries out of the low nine digits
C1_Witness ==
    /\ gen_pc = "returned"
    /\ Len(unique_part) = 5
    /\ Low(unique_part) + Low(timestamp_part) >= Base
    /\ phone_result[1] > 0

\* C2: when the POST fails at transport level, send_request returns None and
\* raises nothing.
C2_TransportFailureReturnsNone ==
    \A i \in 1..Len(calls) :
        calls[i].post.kind = "raise" =>
            calls[i].result = [kind |-> "return", value |-> None]

C2_Witness ==
    /\ Len(calls) = 3
    /\ calls[3].post = [kind |-> "raise", exc |-> "ConnectionError"]
    /\ setup_response = None

\* C3: when the POST yields a response, send_request returns that response,
\* whatever its status and whether its body is JSON, other text or empty.
C3_ResponseIsReturned ==
    \A i \in 1..Len(calls) :
        calls[i].post.kind = "response" =>
            calls[i].result = [kind |-> "return", value |-> calls[i].post.response]

\* a 500 whose body is no JSON has been returned to the script
C3_Witness ==
    /\ Len(calls) = 1
    /\ calls[1].post.kind = "response"
    /\ calls[1].post.response.body.kind = "text"
    /\ calls[1].post.response.status_code = 500
    /\ response_1_1 = calls[1].post.response

\* the message of a response body contains "phone number" or "user already exists"
MessageNamesDuplicate(r) ==
    /\ r.body.kind = "json"
    /\ r.body.value.type = "object"
    /\ \E p \in r.body.value.members :
        /\ p[1] = "message"
        /\ p[2].type = "string"
        /\ \/ contains(<<"phone", "number">>, lower(p[2].words))
           \/ contains(<<"user", "already", "exists">>, lower(p[2].words))

\* C4: TC 3.1 sends its main request with the phoneNumber of the setup request,
\* and prints 'TC 3.1: PASSED' only if the main response has status 400 and its
\* body's message contains "phone number" or "user already exists".
C4_PassedOnlyOnDuplicateMessage ==
    /\ Len(calls) = 4 => calls[4].phoneNumber = calls[3].phoneNumber
    /\ Printed(Pass_3_1) =>
        /\ Received(4)
        /\ calls[4].result.value.status_code = 400
        /\ MessageNamesDuplicate(calls[4].result.value)

C6_Pass_2_1 ==
    /\ Len(calls) >= 2 =>
        /\ DOMAIN calls[2].headers = {"Content-Type"}
        /\ calls[2].tc = "2.1"
    /\ IF Len(calls) >= 2 /\ pc # "check_2_1"
       THEN Printed(Pass_2_1) <=> (Received(2) /\ calls[2].result.value.status_code = 401)
       ELSE ~Printed(Pass_2_1)

C6_Witness ==
    /\ pc = "send_setup"
    /\ response_2_1.status_code = 401
    /\ Printed(Pass_2_1)

\* C7: a run completes or ends through a failed assertion; it never ends through
\* the exit call or through an exception that is no assertion failure.
C7_OnlyAssertionsFail ==
    /\ status \in {"running", "completed", "AssertionError"}
    /\ pc = "aborted" => status = "AssertionError"

\* TC 3.1 completed on a 400 whose body is JSON without a message to read
C7_Witness ==
    /\ status = "completed"
    /\ response_3_1.status_code = 400
    /\ response_3_1.body.kind = "json"
    /\ response_3_1.body.value \in {JsonArray, JsonObject("message", JsonNull)}

Order == <<"1.1", "2.1", "3.1 setup", "3.1">>

\* what the script asserts on the response of the i-th request
Held(i) ==
    CASE i = 2 -> Received(2) /\ calls[2].result.value.status_code = 401
      [] i = 4 -> Received(4) /\ calls[4].result.value.status_code = 400
      [] OTHER -> CreatedOrExists(i)

\* C8: the requests are TC 1.1, TC 2.1, TC 3.1 setup, TC 3.1 main, in this order
\* and once each; a request is sent only if every earlier one returned a
\* response on which the assertions held, so nothing is sent after the first
\* transport failure or failed check.
C8_RequestsInOrder ==
    /\ Len(calls) <= 4
    /\ \A i \in 1..Len(calls) :
        /\ calls[i].tc = Order[i]
        /\ \A j \in 1..(i - 1) : Held(j)
    /\ status # "running" /\ status # "completed" =>
        Len(calls) >= 1 /\ ~(Held(Len(calls)) /\ Len(calls) < 4)

\* the run stopped at the third request, which got no response
C8_Witness ==
    /\ status = "AssertionError"
    /\ Len(calls) = 3
    /\ calls[3].result.value = None

\* C9: every run terminates after at most four requests, and prints the final
\* line if and only if all four requests got responses and the pass lines of
\* TC 1.1, TC 2.1 and TC 3.1 were printed.
C9_Terminates ==
    /\ <>(status # "running")
    /\ [](Len(calls) <= 4)
    /\ [](Printed(AllCompleted) <=>
            /\ \A i \in 1..4 : Received(i)
            /\ Pass_1_1_Printed
            /\ Printed(Pass_2_1)
            /\ Printed(Pass_3_1))

C9_Witness ==
    /\ status = "completed"
    /\ Printed(AllCompleted)
    /\ Len(calls) = 4

\* C10: the fallback branches after the status assertions are never taken:
\* 'TC 1.1: FAILED' is never printed and the exit call of the TC 3.1 setup is
\* never executed.
C10_FallbacksUnreachable ==
    /\ ~Printed("TC 1.1: FAILED (Unexpected API response despite assertion pass criteria)")
    /\ ~Printed("--- TC 3.1 Setup FAILED (Unexpected API response) ---")
    /\ status # "SystemExit"

\* both assertions passed on a 400 and the 'user already exists' branches ran
C10_Witness ==
    /\ pc = "send_3_1"
    /\ response_1_1.status_code = 400
    /\ setup_response.status_code = 400
    /\ Printed(Pass_1_1_Exists)
    /\ Printed("--- TC 3.1 Setup Complete (User already exists for duplication) ---")

=============================================================================
